---- MODULE Spec2Model ----
(***************************************************************************)
(* Flash-based EEPROM emulation (src/src/lib.rs): the EEPROM controller    *)
(* over a Flash of half-words, with the in-memory Flash of the test suite  *)
(* (src/src/tests/mod.rs, MockFlash) as the Flash collaborator.            *)
(*                                                                         *)
(* A half-word is a natural number below 2^16.  A 32-bit item (Word) is    *)
(* kept as the pair <<low half-word, high half-word>> of the two half-     *)
(* words it is assembled from: read_item builds it from the two Flash      *)
(* reads and read_item_tuple splits it again.                              *)
(*                                                                         *)
(* Every controller operation is translated as an operator that runs the   *)
(* whole handler on a memory image and returns the final image, the        *)
(* sequence of Flash program/erase primitives it issued, in order, and how *)
(* it ended.  The state machine issues those primitives one at a time, so  *)
(* that a power loss or a Flash error can stop the operation after any     *)
(* prefix of them.                                                         *)
(***************************************************************************)
EXTENDS Integers, Sequences, FiniteSets, TLC

\* ------------------------------------------------------------------ bounds
\* Items (32-bit words) per page of the modelled region: params.page_size
\* KiB * 1024 / ITEM_SIZE in the source, 256 for the 1 KiB page of the tests.
PageItems == 4

\* Largest page_count configured (the smallest legal one is MinPageCount).
MaxPageCount == 3

\* ------------------------------------------------------- program constants
ACTIVE_PAGE_MARKER == 43981          \* 0xABCD
HALF_ERASED == 65535                 \* 0xffff, an erased half-word
TAG_MSB == 32768                     \* 0b1000_0000_0000_0000
ITEM_SIZE == 4
MinPageCount == 2
FirstPage == 0

ERASED_ITEM == <<HALF_ERASED, HALF_ERASED>>     \* 0xffff_ffff

\* Option::None, for Option<u32> and Option<HalfWord> alike.
None == -1

\* What read yields when it panics instead of returning an Option.
PanicReserved == -2                  \* "msb bit of `1` is reserved"
PanicNoActive == -3                  \* "cannot find active page"
\* The program aborted in unwrap() of the Err of a Flash read.
PanicUnwrap == -4

\* (params.page_size as u32) * 1024: the size of a page in bytes.
PageBytes == PageItems * ITEM_SIZE

\* ------------------------------------------------------------ input values
Tags == {1, 2}                       \* legal tags written and read
ReservedTags == {TAG_MSB + 1}        \* a tag with the msb set
Values == {57005, HALF_ERASED}       \* 0xdead and 0xffff
CapTags == 0 .. PageItems - 2        \* as many legal tags as a page has data slots

\* The calls of write made: <<tag, data>>.
Writes == {<<1, 57005>>, <<1, HALF_ERASED>>, <<2, 57005>>, <<TAG_MSB + 1, 57005>>}

VARIABLES
    page_count,   \* params.page_count
    flash,        \* MockFlash.flash_mem: half-word index -> half-word
    phase,        \* "needinit" | "ready" | "running"
    op,           \* the operation running or last run: [name, tag, data]
    todo,         \* primitives the running operation has still to issue
    pending,      \* how the running operation ends once todo is issued
    outcome,      \* how the last operation ended
    pre,          \* the image when the operation under observation started
    post,         \* the image that operation leaves when it is not stopped
    rec,          \* "none" | "armed" | "torn" | "recovered"
    last,         \* tag -> the value of its last successful write, or None
    nwrites,      \* writes called since the canonical empty state (capacity runs)
    fault         \* the Flash error injected into the last operation (error runs)

vars == <<page_count, flash, phase, op, todo, pending, outcome, pre, post, rec,
          last, nwrites, fault>>

\* ------------------------------------------------------------- MockFlash
MockFlash_read(mem, offset) == mem[offset \div 2]

MockFlash_write(mem, offset, data) == [mem EXCEPT ![offset \div 2] = data]

MockFlash_page_erase(mem, offset) ==
    [i \in DOMAIN mem |->
        IF i >= offset \div 2 /\ i < offset \div 2 + PageBytes \div 2
        THEN HALF_ERASED ELSE mem[i]]

\* A Flash primitive that changes the memory, as issued by the controller.
PrimWrite(offset, data) == [k |-> "write", off |-> offset, val |-> data]
PrimErase(offset) == [k |-> "page_erase", off |-> offset, val |-> HALF_ERASED]

Apply(mem, p) ==
    IF p.k = "write" THEN MockFlash_write(mem, p.off, p.val)
    ELSE MockFlash_page_erase(mem, p.off)

\* A run of a handler: the image so far, the primitives issued so far and
\* the way the handler ended ("ok" until it returns Err or panics).  fail is
\* the position, among the primitives issued, of the one the Flash answers
\* with Err (0: none does); debug tells whether debug_assert! is compiled in.
Run(mem) == [mem |-> mem, tr |-> <<>>, res |-> "ok", fail |-> 0, debug |-> FALSE]

FailingRun(mem, k, debug) == [Run(mem) EXCEPT !.fail = k, !.debug = debug]

\* The handler issues primitive p.  A primitive answered with Err leaves the
\* memory as it is; every call site hands the Err to its caller at once, with
\* `?` or as its own result (lib.rs:178, 185, 195, 199, 226, 230, 263, 268,
\* 269, 358, 359), so a handler that has ended issues nothing more.
Emit(r, p) ==
    IF r.res # "ok" THEN r
    ELSE IF Len(r.tr) + 1 = r.fail
    THEN [r EXCEPT !.tr = Append(r.tr, p), !.res = "err"]
    ELSE [r EXCEPT !.mem = Apply(r.mem, p), !.tr = Append(r.tr, p)]

Panic(r, why) == IF r.res # "ok" THEN r ELSE [r EXCEPT !.res = why]

\* ------------------------------------------------------ address arithmetic
item_offset(page, item) == ((FirstPage + page) * PageItems + item) * ITEM_SIZE

page_offset(page) == item_offset(page, 0)

\* The two debug_assert! of item_offset: what they require of its arguments.
item_offset_asserts(page, item) == item < PageItems /\ page < page_count

\* ----------------------------------------------------------------- slot I/O
read_item(mem, page, item) ==
    LET offset == item_offset(page, item)
        tag == MockFlash_read(mem, offset)
        data == MockFlash_read(mem, offset + 2)
    IN  <<tag, data>>

read_item_tuple(mem, page, item) ==
    LET item_word == read_item(mem, page, item)
    IN  <<item_word[1], item_word[2]>>

\* program_item with the two half-words programmed in the other order.
program_item_tag_first(r, page, pos, tag, data) ==
    LET item_addr == item_offset(page, pos)
    IN  Emit(Emit(r, PrimWrite(item_addr, tag)), PrimWrite(item_addr + 2, data))

program_item(r, page, pos, tag, data) ==
    LET item_addr == item_offset(page, pos)
    IN  Emit(Emit(r, PrimWrite(item_addr + 2, data)), PrimWrite(item_addr, tag))

\* ------------------------------------------------------------ page status
page_status(mem, page) == MockFlash_read(mem, page_offset(page))

set_page_status(r, page, status) == Emit(r, PrimWrite(page_offset(page), status))

\* is_page_dirty looking at the marker item only.
is_page_dirty_marker_only(mem, page) == read_item(mem, page, 0) # ERASED_ITEM

is_page_dirty(mem, page) ==
    \E item \in 0 .. PageItems - 1 : read_item(mem, page, item) # ERASED_ITEM

\* erase_page that erases a page only when its marker is not 0xffff.
erase_page_if_marked(r, page) ==
    IF page_status(r.mem, page) # HALF_ERASED THEN Emit(r, PrimErase(page_offset(page))) ELSE r

\* The debug_assert! of line 330 stands between page_erase and the return of
\* its result.
erase_page(r, page) ==
    IF r.res # "ok" THEN r
    ELSE IF is_page_dirty(r.mem, page)
    THEN LET result == Emit(r, PrimErase(page_offset(page)))
         IN  IF r.debug /\ is_page_dirty(result.mem, page)
             THEN [result EXCEPT !.res = "panic_assert"]
             ELSE result
    ELSE r

\* ------------------------------------------------------ active-page tracking
\* (0..page_count).find(|page| page_status(page) == ACTIVE_PAGE_MARKER)
\* find yielding page 0 when no page is marked.
RECURSIVE find_from_or_first(_, _)
find_from_or_first(mem, page) ==
    IF page >= page_count THEN 0
    ELSE IF page_status(mem, page) = ACTIVE_PAGE_MARKER THEN page
    ELSE find_from_or_first(mem, page + 1)

\* find yielding the last page that is marked instead of the first.
RECURSIVE find_from_last(_, _)
find_from_last(mem, page) ==
    IF page >= page_count THEN None
    ELSE LET later == find_from_last(mem, page + 1)
         IN  IF later # None THEN later
             ELSE IF page_status(mem, page) = ACTIVE_PAGE_MARKER THEN page
             ELSE None

RECURSIVE find_from(_, _)
find_from(mem, page) ==
    IF page >= page_count THEN None
    ELSE IF page_status(mem, page) = ACTIVE_PAGE_MARKER THEN page
    ELSE find_from(mem, page + 1)

find_active(mem) == find_from(mem, 0)

\* for item in (1..max_item).rev(): the scan of search, at position item.
RECURSIVE search_from(_, _, _, _)
search_from(mem, page, item, tag) ==
    IF item < 1 THEN None
    ELSE LET td == read_item_tuple(mem, page, item)
         IN  IF td[1] = tag THEN td[2]
             ELSE search_from(mem, page, item - 1, tag)

search(mem, page, max_item, tag) == search_from(mem, page, max_item - 1, tag)

\* -------------------------------------------------------------- compaction
\* The target page taken below the source instead of above it.
NextPage_backwards(src_page) == IF src_page = 0 THEN page_count - 1 ELSE src_page - 1

NextPage(src_page) == IF src_page = page_count - 1 THEN 0 ELSE src_page + 1

\* The copy loop of rescue_if_full at source position item: st is
\* [run, tgt_pos]; the source is read from the image of the run so far.
\* The copy loop scanning the source from its first data slot upwards (the
\* loop without .rev()): item counts the slots still to scan.
RECURSIVE rescue_loop_forward(_, _, _, _)
rescue_loop_forward(st, src_page, tgt_page, item) ==
    IF item < 1 THEN st
    ELSE LET td == read_item_tuple(st.run.mem, src_page, PageItems - item)
         IN  IF td[1] = HALF_ERASED
             THEN rescue_loop_forward(st, src_page, tgt_page, item - 1)
             ELSE IF search(st.run.mem, tgt_page, st.tgt_pos, td[1]) = None
             THEN rescue_loop_forward(
                      [run |-> program_item(st.run, tgt_page, st.tgt_pos, td[1], td[2]),
                       tgt_pos |-> st.tgt_pos + 1],
                      src_page, tgt_page, item - 1)
             ELSE rescue_loop_forward(st, src_page, tgt_page, item - 1)

\* The copy loop without the search of the target: every written source
\* slot is copied, also a tag the target already holds.
RECURSIVE rescue_loop_copy_all(_, _, _, _)
rescue_loop_copy_all(st, src_page, tgt_page, item) ==
    IF item < 1 THEN st
    ELSE LET td == read_item_tuple(st.run.mem, src_page, item)
         IN  IF td[1] = HALF_ERASED
             THEN rescue_loop_copy_all(st, src_page, tgt_page, item - 1)
             ELSE rescue_loop_copy_all(
                      [run |-> program_item(st.run, tgt_page, st.tgt_pos, td[1], td[2]),
                       tgt_pos |-> st.tgt_pos + 1],
                      src_page, tgt_page, item - 1)

\* The copy loop without the test on tag 0xffff: a slot whose tag half-word
\* is erased and whose data half-word is programmed is copied as well.
RECURSIVE rescue_loop_no_skip(_, _, _, _)
rescue_loop_no_skip(st, src_page, tgt_page, item) ==
    IF item < 1 THEN st
    ELSE LET td == read_item_tuple(st.run.mem, src_page, item)
         IN  IF td = ERASED_ITEM
             THEN rescue_loop_no_skip(st, src_page, tgt_page, item - 1)
             ELSE IF search(st.run.mem, tgt_page, st.tgt_pos, td[1]) = None
             THEN rescue_loop_no_skip(
                      [run |-> program_item(st.run, tgt_page, st.tgt_pos, td[1], td[2]),
                       tgt_pos |-> st.tgt_pos + 1],
                      src_page, tgt_page, item - 1)
             ELSE rescue_loop_no_skip(st, src_page, tgt_page, item - 1)

RECURSIVE rescue_loop(_, _, _, _)
rescue_loop(st, src_page, tgt_page, item) ==
    IF item < 1 THEN st
    ELSE LET td == read_item_tuple(st.run.mem, src_page, item)
         IN  IF td[1] = HALF_ERASED
             THEN rescue_loop(st, src_page, tgt_page, item - 1)
             ELSE IF search(st.run.mem, tgt_page, st.tgt_pos, td[1]) = None
             THEN rescue_loop([run |-> program_item(st.run, tgt_page, st.tgt_pos, td[1], td[2]),
                               tgt_pos |-> st.tgt_pos + 1],
                              src_page, tgt_page, item - 1)
             ELSE rescue_loop(st, src_page, tgt_page, item - 1)

\* rescue_if_full that marks the target and leaves the source as it is.
rescue_if_full_keep_source(r, src_page) ==
    IF read_item(r.mem, src_page, PageItems - 1) = ERASED_ITEM
    THEN [run |-> r, page |-> src_page]
    ELSE LET tgt_page == NextPage(src_page)
             copied == rescue_loop([run |-> r, tgt_pos |-> 1], src_page, tgt_page, PageItems - 1)
             marked == set_page_status(copied.run, tgt_page, ACTIVE_PAGE_MARKER)
         IN  [run |-> marked, page |-> tgt_page]

\* rescue_if_full that erases the source after the copy and marks the target
\* last.
rescue_if_full_erases_first(r, src_page) ==
    IF read_item(r.mem, src_page, PageItems - 1) = ERASED_ITEM
    THEN [run |-> r, page |-> src_page]
    ELSE LET tgt_page == NextPage(src_page)
             copied == rescue_loop([run |-> r, tgt_pos |-> 1], src_page, tgt_page, PageItems - 1)
             erased == erase_page(copied.run, src_page)
         IN  [run |-> set_page_status(erased, tgt_page, ACTIVE_PAGE_MARKER), page |-> tgt_page]

\* rescue_if_full that marks the target before it copies into it.
rescue_if_full_marks_first(r, src_page) ==
    IF read_item(r.mem, src_page, PageItems - 1) = ERASED_ITEM
    THEN [run |-> r, page |-> src_page]
    ELSE LET tgt_page == NextPage(src_page)
             marked == set_page_status(r, tgt_page, ACTIVE_PAGE_MARKER)
             copied == rescue_loop([run |-> marked, tgt_pos |-> 1], src_page, tgt_page, PageItems - 1)
         IN  [run |-> erase_page(copied.run, src_page), page |-> tgt_page]

\* rescue_if_full whose tgt_pos starts at 2 instead of 1.
rescue_if_full_from_two(r, src_page) ==
    IF read_item(r.mem, src_page, PageItems - 1) = ERASED_ITEM
    THEN [run |-> r, page |-> src_page]
    ELSE LET tgt_page == NextPage(src_page)
             copied == rescue_loop([run |-> r, tgt_pos |-> 2], src_page, tgt_page, PageItems - 1)
             marked == set_page_status(copied.run, tgt_page, ACTIVE_PAGE_MARKER)
         IN  [run |-> erase_page(marked, src_page), page |-> tgt_page]

\* Returns [run, page]: the run so far and the page to write to.
rescue_if_full(r, src_page) ==
    IF read_item(r.mem, src_page, PageItems - 1) = ERASED_ITEM
    THEN [run |-> r, page |-> src_page]
    ELSE LET tgt_page == NextPage(src_page)
             copied == rescue_loop([run |-> r, tgt_pos |-> 1], src_page, tgt_page, PageItems - 1)
             marked == set_page_status(copied.run, tgt_page, ACTIVE_PAGE_MARKER)
         IN  [run |-> erase_page(marked, src_page), page |-> tgt_page]

\* ------------------------------------------------------------------- init
\* The loop of init leaving every page marked ACTIVE as it is.
RECURSIVE init_loop_keeps_marked(_, _, _)
init_loop_keeps_marked(r, active, page) ==
    IF page >= page_count THEN r
    ELSE init_loop_keeps_marked(
             IF page_status(r.mem, page) = ACTIVE_PAGE_MARKER THEN r ELSE erase_page(r, page),
             active, page + 1)

RECURSIVE init_loop(_, _, _)
init_loop(r, active, page) ==
    IF page >= page_count THEN r
    ELSE init_loop(IF active # None /\ active = page THEN r ELSE erase_page(r, page),
                   active, page + 1)

\* init that marks page 0 whether or not an active page was found.
init_always_marks(mem) ==
    LET active == find_active(mem)
        r == init_loop(Run(mem), active, 0)
    IN  set_page_status(r, 0, ACTIVE_PAGE_MARKER)

\* init that also compacts the active page it finds when that page is full.
init_compacts(mem) ==
    LET active == find_active(mem)
        r == init_loop(Run(mem), active, 0)
    IN  IF active = None THEN set_page_status(r, 0, ACTIVE_PAGE_MARKER)
        ELSE rescue_if_full(r, active).run

\* init as it runs from r, a run that has issued nothing yet.
init_run(r) ==
    LET active == find_active(r.mem)
        looped == init_loop(r, active, 0)
    IN  IF active = None THEN set_page_status(looped, 0, ACTIVE_PAGE_MARKER) ELSE looped

init(mem) == init_run(Run(mem))

\* ------------------------------------------------------------------ erase
RECURSIVE erase_loop(_, _)
erase_loop(r, page) ==
    IF page >= page_count THEN r
    ELSE LET start_offset == (FirstPage + page) * PageBytes
         IN  erase_loop(Emit(r, PrimErase(start_offset)), page + 1)

\* erase whose loop starts at page 1.
erase_skips_first(mem) == set_page_status(erase_loop(Run(mem), 1), 0, ACTIVE_PAGE_MARKER)

erase_run(r) == set_page_status(erase_loop(r, 0), 0, ACTIVE_PAGE_MARKER)

erase(mem) == erase_run(Run(mem))

\* ------------------------------------------------------------------- read
\* tag & 0b1000_0000_0000_0000
TagMsb(tag) == ((tag \div TAG_MSB) % 2) * TAG_MSB

\* The result of read: a half-word, None, or the panic it ends in.
read(mem, tag) ==
    IF TagMsb(tag) # 0 THEN PanicReserved
    ELSE LET page == find_active(mem)
         IN  IF page = None THEN PanicNoActive
             ELSE search(mem, page, PageItems, tag)

\* ------------------------------------------------------------------ write
\* for item in 1..page_items: the first item that reads ERASED_ITEM.
\* The loop yielding the last item when no item reads ERASED_ITEM.
RECURSIVE free_from_or_last(_, _, _)
free_from_or_last(mem, page, item) ==
    IF item >= PageItems THEN PageItems - 1
    ELSE IF read_item(mem, page, item) = ERASED_ITEM THEN item
    ELSE free_from_or_last(mem, page, item + 1)

\* The loop yielding the highest item that reads ERASED_ITEM.
RECURSIVE free_from_highest(_, _, _)
free_from_highest(mem, page, item) ==
    IF item >= PageItems THEN None
    ELSE LET later == free_from_highest(mem, page, item + 1)
         IN  IF later # None THEN later
             ELSE IF read_item(mem, page, item) = ERASED_ITEM THEN item
             ELSE None

RECURSIVE free_from(_, _, _)
free_from(mem, page, item) ==
    IF item >= PageItems THEN None
    ELSE IF read_item(mem, page, item) = ERASED_ITEM THEN item
    ELSE free_from(mem, page, item + 1)

\* write without the assertion on the tag.
write_any_tag(mem, tag, data) ==
    LET active == find_active(mem)
    IN  IF active = None THEN Panic(Run(mem), "panic_no_active")
        ELSE LET rescued == rescue_if_full(Run(mem), active)
                 item == free_from(rescued.run.mem, rescued.page, 1)
             IN  IF item = None THEN Panic(rescued.run, "panic_too_many")
                 ELSE program_item(rescued.run, rescued.page, item, tag, data)

write_run(r, tag, data) ==
    IF TagMsb(tag) # 0 THEN Panic(r, "panic_reserved")
    ELSE LET active == find_active(r.mem)
         IN  IF active = None THEN Panic(r, "panic_no_active")
             ELSE LET rescued == rescue_if_full(r, active)
                      item == free_from(rescued.run.mem, rescued.page, 1)
                  IN  IF rescued.run.res # "ok" THEN rescued.run
                      ELSE IF item = None THEN Panic(rescued.run, "panic_too_many")
                      ELSE program_item(rescued.run, rescued.page, item, tag, data)

write(mem, tag, data) == write_run(Run(mem), tag, data)

\* ------------------------------------------------- images found at power-up
\* The contents a page can have before the controller first runs: erased,
\* zeroed, or a marker followed by one of a few data layouts.
LayoutErased == [item \in 1 .. PageItems - 1 |-> ERASED_ITEM]
LayoutZeroed == [item \in 1 .. PageItems - 1 |-> <<0, 0>>]
\* every slot written, tags 1 and 2 in turn from the last slot down: tag 1
\* with 0xdead in the last slot and 0xffff below, tag 2 with 0xdead
LayoutFull ==
    [item \in 1 .. PageItems - 1 |->
        IF (PageItems - 1 - item) % 2 = 1 THEN <<2, 57005>>
        ELSE <<1, IF item = PageItems - 1 THEN 57005 ELSE HALF_ERASED>>]
\* one entry in slot 1: what an interrupted compaction leaves in its target
LayoutSimple ==
    [item \in 1 .. PageItems - 1 |-> IF item = 1 THEN <<1, 57005>> ELSE ERASED_ITEM]
\* an entry in slot 2 above an erased slot 1
LayoutGap ==
    [item \in 1 .. PageItems - 1 |-> IF item = 2 THEN <<1, 57005>> ELSE ERASED_ITEM]

\* The half-words of a page with the given marker and data layout; the high
\* half-word of slot 0 is erased unless the whole page is zeroed.
PageImage(marker, layout) ==
    [h \in 0 .. 2 * PageItems - 1 |->
        IF h = 0 THEN marker
        ELSE IF h = 1 THEN (IF layout = LayoutZeroed /\ marker = 0 THEN 0 ELSE HALF_ERASED)
        ELSE layout[h \div 2][(h % 2) + 1]]

\* erased; zeroed; active and empty, full, with a gap; the unmarked target of
\* an interrupted compaction.
PageImages ==
    {PageImage(HALF_ERASED, LayoutErased), PageImage(0, LayoutZeroed)}
    \cup {PageImage(ACTIVE_PAGE_MARKER, l) : l \in {LayoutErased, LayoutFull, LayoutGap}}
    \cup {PageImage(HALF_ERASED, LayoutSimple)}

Images(n) ==
    {[i \in 0 .. n * 2 * PageItems - 1 |-> pages[i \div (2 * PageItems)][i % (2 * PageItems)]] :
        pages \in [0 .. n - 1 -> PageImages]}

\* ----------------------------------------------------------- state machine
NoOp == [name |-> "none", tag |-> 0, data |-> 0]

\* No Flash error was injected: at is the position of the primitive answered
\* with Err, issued the primitives the operation issued.
NoFault == [at |-> 0, issued |-> <<>>]

\* No write has succeeded yet (since the region was last erased).
NoWrites == [t \in Tags \cup CapTags |-> None]

\* last, once an operation has ended with result res.
LastAfter(o, res) ==
    IF o.name = "write" /\ res = "ok" THEN [last EXCEPT ![o.tag] = o.data] ELSE last

Init ==
    /\ page_count \in MinPageCount .. MaxPageCount
    /\ flash \in Images(page_count)
    /\ phase = "needinit"
    /\ op = NoOp
    /\ todo = <<>>
    /\ pending = "none"
    /\ outcome = "none"
    /\ pre = flash
    /\ post = flash
    /\ rec = "none"
    /\ last = NoWrites
    /\ nwrites = 0
    /\ fault = NoFault

\* The caller's state once an operation has ended with result res: a panic
\* aborts the program, and the program calls init when it starts again.
PhaseAfter(res) == IF res = "ok" THEN "ready" ELSE "needinit"

\* An operation is called; r is the run of its handler on the present image.
\* The operation is observed (armed) when it starts in a state an earlier
\* init, erase or write produced; an init that follows a stopped observed
\* operation is its recovery.
Begin(name, tag, data, r) ==
    /\ phase # "running"
    /\ op' = [name |-> name, tag |-> tag, data |-> data]
    /\ IF name = "init" /\ rec = "torn"
       THEN /\ UNCHANGED <<pre, post>>
            /\ rec' = IF r.tr = <<>> THEN "recovered" ELSE "torn"
       ELSE /\ pre' = flash
            /\ post' = r.mem
            /\ rec' = IF phase = "ready" THEN "armed" ELSE "none"
    /\ IF r.tr = <<>>
       THEN /\ phase' = PhaseAfter(r.res)
            /\ outcome' = r.res
            /\ todo' = <<>>
            /\ pending' = "none"
       ELSE /\ phase' = "running"
            /\ outcome' = "running"
            /\ todo' = r.tr
            /\ pending' = r.res
    /\ last' = IF name = "erase" THEN NoWrites ELSE last
    /\ UNCHANGED <<page_count, flash, nwrites, fault>>

CallInit == Begin("init", 0, 0, init(flash))

\* After a stopped or aborted operation the program calls init first (crate
\* example, lib.rs:32); erase is called on a power-up image or once an
\* operation has succeeded.
CallErase ==
    /\ phase = "ready" \/ outcome = "none"
    /\ Begin("erase", 0, 0, erase(flash))

\* write and read are called once an operation has succeeded; a call without
\* an active page panics before any primitive.
CallWrite ==
    \E w \in Writes :
        /\ phase = "ready" \/ find_active(flash) = None
        /\ Begin("write", w[1], w[2], write(flash, w[1], w[2]))

CallRead ==
    \E tag \in Tags \cup ReservedTags :
        /\ phase = "ready" \/ (phase = "needinit" /\ find_active(flash) = None)
        /\ LET result == read(flash, tag)
           IN  /\ op' = [name |-> "read", tag |-> tag, data |-> result]
               /\ outcome' = IF result \in {PanicReserved, PanicNoActive} THEN "panic" ELSE "ok"
               /\ phase' = IF result \in {PanicReserved, PanicNoActive} THEN "needinit" ELSE phase
        /\ pre' = flash
        /\ post' = flash
        /\ rec' = "none"
        /\ UNCHANGED <<page_count, flash, todo, pending, last, nwrites, fault>>

\* The running operation issues its next primitive, and ends after its last.
Step ==
    /\ phase = "running"
    /\ flash' = Apply(flash, Head(todo))
    /\ todo' = Tail(todo)
    /\ IF Tail(todo) = <<>>
       THEN /\ phase' = PhaseAfter(pending)
            /\ outcome' = pending
            /\ pending' = "none"
            /\ rec' = IF rec = "torn" THEN "recovered" ELSE rec
            /\ last' = LastAfter(op, pending)
       ELSE UNCHANGED <<phase, outcome, pending, rec, last>>
    /\ UNCHANGED <<page_count, op, pre, post, nwrites, fault>>

\* The running operation stops before its next primitive: power is lost, or
\* the primitive returns Err, which `?` hands to the caller of the operation.
Stop ==
    /\ phase = "running"
    /\ phase' = "needinit"
    /\ todo' = <<>>
    /\ pending' = "none"
    /\ outcome' = "stopped"
    /\ rec' = IF rec = "armed" THEN "torn" ELSE rec
    /\ UNCHANGED <<page_count, flash, op, pre, post, last, nwrites, fault>>

Next == CallInit \/ CallErase \/ CallWrite \/ CallRead \/ Step \/ Stop

Spec == Init /\ [][Next]_vars

\* ---------------------------------------------------------- capacity runs
\* Writes that run to their end with Flash primitives that succeed, counted
\* from the canonical empty state, over as many tags as a page has data slots.
WriteCap == (PageItems - 1) * (MaxPageCount - 1) + 1

CanonicalEmpty(n) ==
    [i \in 0 .. n * 2 * PageItems - 1 |-> IF i = 0 THEN ACTIVE_PAGE_MARKER ELSE HALF_ERASED]

InitCap ==
    /\ page_count \in MinPageCount .. MaxPageCount
    /\ flash = CanonicalEmpty(page_count)
    /\ phase = "ready"
    /\ op = NoOp
    /\ todo = <<>>
    /\ pending = "none"
    /\ outcome = "none"
    /\ pre = flash
    /\ post = flash
    /\ rec = "none"
    /\ last = NoWrites
    /\ nwrites = 0
    /\ fault = NoFault

\* The capacity of a page depends on the tags written, not on the data, so
\* one data value is written.
WriteAll ==
    \E tag \in CapTags, data \in {57005} :
        /\ phase = "ready"
        /\ nwrites < WriteCap
        /\ LET r == write(flash, tag, data)
               o == [name |-> "write", tag |-> tag, data |-> data]
           IN  /\ flash' = r.mem
               /\ op' = o
               /\ outcome' = r.res
               /\ phase' = PhaseAfter(r.res)
               /\ last' = LastAfter(o, r.res)
               /\ pre' = flash
               /\ post' = r.mem
        /\ nwrites' = nwrites + 1
        /\ UNCHANGED <<page_count, todo, pending, rec, fault>>

NextCap == WriteAll

SpecCap == InitCap /\ [][NextCap]_vars

\* ------------------------------------------------ runs from the empty state
\* The operations of Spec that issue primitives, stops included, on a region
\* that starts in the canonical empty state an erase leaves; read, which
\* leaves the region as it is, is applied to the states these runs reach.
NextFresh == CallInit \/ CallErase \/ CallWrite \/ Step \/ Stop

SpecFresh == InitCap /\ [][NextFresh]_vars

\* ------------------------------------------------------- writes to a full page
\* One write, run to its end with primitives that succeed, on a region whose
\* active page has every data slot written, with any of the I-1 tags and
\* either value in each slot, and whose other pages are erased: what a
\* sequence of I-1 writes leaves on page 0, or on a later page after a
\* compaction that copied one tag.
FullImage(n, active, slots) ==
    [i \in 0 .. n * 2 * PageItems - 1 |->
        IF i \div (2 * PageItems) # active THEN HALF_ERASED
        ELSE IF i % (2 * PageItems) = 0 THEN ACTIVE_PAGE_MARKER
        ELSE IF i % (2 * PageItems) = 1 THEN HALF_ERASED
        ELSE slots[(i % (2 * PageItems)) \div 2][(i % 2) + 1]]

InitFull ==
    /\ page_count \in MinPageCount .. MaxPageCount
    /\ \E active \in 0 .. page_count - 1,
          slots \in [1 .. PageItems - 1 -> CapTags \X Values] :
           flash = FullImage(page_count, active, slots)
    /\ phase = "ready"
    /\ op = NoOp
    /\ todo = <<>>
    /\ pending = "none"
    /\ outcome = "none"
    /\ pre = flash
    /\ post = flash
    /\ rec = "none"
    /\ last = NoWrites
    /\ nwrites = 0
    /\ fault = NoFault

WriteFull ==
    \E tag \in CapTags, data \in {57005} :
        /\ op = NoOp
        /\ LET r == write(flash, tag, data)
           IN  /\ flash' = r.mem
               /\ op' = [name |-> "write", tag |-> tag, data |-> data]
               /\ outcome' = r.res
               /\ phase' = PhaseAfter(r.res)
               /\ pre' = flash
               /\ post' = r.mem
        /\ UNCHANGED <<page_count, todo, pending, rec, last, nwrites, fault>>

NextFull == WriteFull

SpecFull == InitFull /\ [][NextFull]_vars

\* ------------------------------------------------- write sequences of any length
\* Writes that run to their end with primitives that succeed, from the
\* canonical empty state, over I-1 tags and in sequences of any length:
\* nwrites counts them up to RoomLen, which is above (I-1)*(N-1) for every N,
\* and stays there.
RoomLen == (PageItems - 1) * (MaxPageCount - 1) + 2

WriteRoom ==
    \E tag \in CapTags, data \in {57005} :
        /\ phase = "ready"
        /\ LET r == write(flash, tag, data)
               o == [name |-> "write", tag |-> tag, data |-> data]
           IN  /\ flash' = r.mem
               /\ op' = o
               /\ outcome' = r.res
               /\ phase' = PhaseAfter(r.res)
               /\ last' = LastAfter(o, r.res)
               /\ pre' = flash
               /\ post' = r.mem
        /\ nwrites' = IF nwrites < RoomLen THEN nwrites + 1 ELSE nwrites
        /\ UNCHANGED <<page_count, todo, pending, rec, fault>>

NextRoom == WriteRoom

SpecRoom == InitCap /\ [][NextRoom]_vars

\* ------------------------------------------------- unchecked configurations
\* EEPROM::new keeps the params it is given and derives page_items; it checks
\* no field, so a page_count below the documented minimum of 2 pages is taken.
new(params_page_count) == [page_count |-> params_page_count, page_items |-> PageItems]

InitCfg ==
    /\ \E n \in 1 .. MinPageCount - 1 : page_count = new(n).page_count
    /\ flash \in Images(page_count)
    /\ phase = "needinit"
    /\ op = NoOp
    /\ todo = <<>>
    /\ pending = "none"
    /\ outcome = "none"
    /\ pre = flash
    /\ post = flash
    /\ rec = "none"
    /\ last = NoWrites
    /\ nwrites = 0
    /\ fault = NoFault

SpecCfg == InitCfg /\ [][Next]_vars

\* -------------------------------------------------------------- error runs
\* Operations that run to their end in one step, with or without one Flash
\* primitive or read answered with Err, in a build with or without
\* debug_assert!.
Calls == {<<"init", 0, 0>>, <<"erase", 0, 0>>, <<"write", 1, 57005>>, <<"write", 2, 57005>>}

\* They start from the images whose pages are erased, zeroed, active and full,
\* or the unmarked target of an interrupted compaction.
ErrPageImages == PageImages \ {PageImage(ACTIVE_PAGE_MARKER, l) : l \in {LayoutErased, LayoutGap}}

InitErr ==
    /\ Init
    /\ \A p \in 0 .. page_count - 1 :
          [h \in 0 .. 2 * PageItems - 1 |-> flash[p * 2 * PageItems + h]] \in ErrPageImages

Handle(c, r) ==
    IF c[1] = "init" THEN init_run(r)
    ELSE IF c[1] = "erase" THEN erase_run(r)
    ELSE write_run(r, c[2], c[3])

\* init is called first and after every operation that did not return Ok.
MayCall(c) == c[1] = "init" \/ phase = "ready"

\* Call c has ended as run r tells; at is the primitive answered with Err.
Ended(c, r, at) ==
    LET o == [name |-> c[1], tag |-> c[2], data |-> c[3]]
    IN  /\ flash' = r.mem
        /\ op' = o
        /\ outcome' = r.res
        /\ phase' = PhaseAfter(r.res)
        /\ pre' = flash
        /\ post' = Handle(c, Run(flash)).mem
        /\ fault' = [at |-> at, issued |-> r.tr]
        /\ UNCHANGED <<page_count, todo, pending, rec, last, nwrites>>

Succeeding == \E c \in Calls : MayCall(c) /\ Ended(c, Handle(c, Run(flash)), 0)

Failing ==
    \E c \in Calls, debug \in BOOLEAN :
        /\ MayCall(c)
        /\ \E k \in 1 .. Len(Handle(c, Run(flash)).tr) :
               Ended(c, Handle(c, FailingRun(flash, k, debug)), k)

\* fault.at when the Err was the answer to a half-word read.
ReadErr == -1

\* Flash::read as the controller calls it: the Flash answers Ok(half-word) or
\* Err; page_status and read_item unwrap the answer, which aborts the program
\* on Err.
Flash_read(mem, offset, answers) ==
    [ok |-> answers, val |-> IF answers THEN MockFlash_read(mem, offset) ELSE 0]

unwrap(result) == IF result.ok THEN result.val ELSE PanicUnwrap

page_status_unwrap(mem, page, answers) == unwrap(Flash_read(mem, page_offset(page), answers))

\* init and write read the marker of page 0 first (find_active), before they
\* issue any primitive; erase reads nothing.  The Flash answers that read
\* with Err.
ReadFailing ==
    \E c \in Calls :
        /\ MayCall(c)
        /\ c[1] # "erase"
        /\ page_status_unwrap(flash, 0, FALSE) = PanicUnwrap
        /\ op' = [name |-> c[1], tag |-> c[2], data |-> c[3]]
        /\ outcome' = "panic_unwrap"
        /\ phase' = PhaseAfter("panic_unwrap")
        /\ pre' = flash
        /\ post' = flash
        /\ fault' = [at |-> ReadErr, issued |-> <<>>]
        /\ UNCHANGED <<page_count, flash, todo, pending, rec, last, nwrites>>

NextErr == Succeeding \/ Failing \/ ReadFailing

SpecErr == InitErr /\ [][NextErr]_vars

\* ------------------------------------------------- reading an image directly
\* The predicates of the properties below look at the half-words of an image
\* themselves, not through the controller's helpers.
Slot(mem, page, item) ==
    <<mem[(page * PageItems + item) * 2], mem[(page * PageItems + item) * 2 + 1]>>

Pages == 0 .. page_count - 1
DataItems == 1 .. PageItems - 1

ActivePages(mem) == {p \in Pages : Slot(mem, p, 0)[1] = ACTIVE_PAGE_MARKER}

PageErased(mem, p) == \A item \in 0 .. PageItems - 1 : Slot(mem, p, item) = ERASED_ITEM

SamePage(m1, m2, p) == \A item \in 0 .. PageItems - 1 : Slot(m1, p, item) = Slot(m2, p, item)

\* Exactly one page is marked ACTIVE and every other page is entirely 0xFFFF.
WellFormed(mem) ==
    /\ Cardinality(ActivePages(mem)) = 1
    /\ \A p \in Pages \ ActivePages(mem) : PageErased(mem, p)

\* The page read and write work on: the lowest page marked ACTIVE.
TheActive(mem) == CHOOSE p \in ActivePages(mem) : \A q \in ActivePages(mem) : p <= q

\* The tags held by the data slots of a page, and the data of the highest slot
\* holding tag t.
TagsOf(mem, p) == {Slot(mem, p, item)[1] : item \in DataItems} \ {HALF_ERASED}

LatestOf(mem, p, t) ==
    LET at == {item \in DataItems : Slot(mem, p, item)[1] = t}
    IN  Slot(mem, p, CHOOSE i \in at : \A j \in at : j <= i)[2]

\* A write that returned Ok has just ended.
WriteOk == op.name = "write" /\ outcome = "ok" /\ phase = "ready"

\* That write found the last slot of the active page written and compacted.
Compacted == WriteOk /\ Slot(pre, TheActive(pre), PageItems - 1) # ERASED_ITEM

\* --------------------------------------------------------------- properties

C3_Independence ==
    WriteOk => \A t2 \in Tags \ {op.tag} : read(flash, t2) = read(pre, t2)

C3_Witness ==
    /\ Compacted
    /\ \E t2 \in Tags \ {op.tag} : read(pre, t2) \in Values

\* C4: when an init, erase or write that started in a state an earlier
\* operation produced is stopped after any prefix of its primitives and init
\* then runs to completion, every legal tag reads either what it read before
\* the stopped operation or what it reads after that operation run to its end.
C4_CrashSafety ==
    rec = "recovered" =>
        \A t \in Tags : read(flash, t) \in {read(pre, t), read(post, t)}

C4_Witness ==
    /\ rec = "recovered"
    /\ TheActive(flash) # TheActive(pre)
    /\ flash # post
    /\ \E t \in Tags : read(pre, t) \in Values /\ read(post, t) # read(pre, t)

\* C5: whatever the region held, after init returns success exactly one page
\* is marked ACTIVE and every other page is entirely 0xFFFF.
C5_InitPost == (op.name = "init" /\ outcome = "ok") => WellFormed(flash)

C5_Witness ==
    /\ op.name = "init" /\ outcome = "ok"
    /\ Cardinality(ActivePages(pre)) >= 2
    /\ \E p \in Pages : Slot(pre, p, 0)[1] = 0

\* The primitives of tr, issued in order from mem, change no half-word.
RECURSIVE NoChange(_, _)
NoChange(mem, tr) ==
    tr = <<>> \/ (Apply(mem, Head(tr)) = mem /\ NoChange(mem, Tail(tr)))

\* C6: an init run right after a successful init leaves the image as it is and
\* issues no primitive that changes a half-word.
C6_InitIdempotent ==
    (op.name = "init" /\ outcome = "ok") =>
        LET again == init(flash)
        IN  again.res = "ok" /\ again.mem = flash /\ NoChange(flash, again.tr)

C6_Witness ==
    /\ op.name = "init" /\ outcome = "ok"
    /\ pre # flash
    /\ ActivePages(pre) # {}

\* C7: after every successful init, erase or write exactly one page is marked
\* ACTIVE and every other page is entirely erased.
C7_OneActive == phase = "ready" => WellFormed(flash)

C7_Witness == Compacted /\ TheActive(pre) = page_count - 1

\* C8: erase, from any contents, leaves on success page 0 marked ACTIVE with
\* all its data slots erased and every other page entirely 0xFFFF, so that
\* every legal tag reads not-present.
C8_EraseCanonical ==
    (op.name = "erase" /\ outcome = "ok") =>
        /\ Slot(flash, 0, 0)[1] = ACTIVE_PAGE_MARKER
        /\ \A item \in DataItems : Slot(flash, 0, item) = ERASED_ITEM
        /\ \A p \in Pages \ {0} : PageErased(flash, p)
        /\ \A t \in Tags : read(flash, t) = None

C8_Witness ==
    /\ op.name = "erase" /\ outcome = "ok"
    /\ ActivePages(pre) # {} /\ TheActive(pre) # 0
    /\ \E t \in Tags : read(pre, t) \in Values

\* C10: a successful write(T, V) called while the last slot of the active page
\* src is written leaves (src + 1) mod N as the ACTIVE page, holding one entry
\* per tag of src with that tag's latest value and then (T, V) in the first
\* free slot, leaves src entirely erased and changes no other page.
C10_CompactionOnWrite ==
    Compacted =>
        LET src == TheActive(pre)
            tgt == (src + 1) % page_count
            D == TagsOf(pre, src)
            d == Cardinality(D)
        IN  /\ ActivePages(flash) = {tgt}
            /\ \A t \in D :
                    /\ Cardinality({i \in 1 .. d : Slot(flash, tgt, i)[1] = t}) = 1
                    /\ \E i \in 1 .. d : Slot(flash, tgt, i) = <<t, LatestOf(pre, src, t)>>
            /\ Slot(flash, tgt, d + 1) = <<op.tag, op.data>>
            /\ \A i \in d + 2 .. PageItems - 1 : Slot(flash, tgt, i) = ERASED_ITEM
            /\ PageErased(flash, src)
            /\ \A p \in Pages \ {src, tgt} : SamePage(flash, pre, p)

C10_Witness ==
    /\ Compacted
    /\ TheActive(pre) = page_count - 1
    /\ page_count > 2
    /\ Cardinality(TagsOf(pre, TheActive(pre))) = 2
    /\ \E i \in DataItems, j \in DataItems :
          i < j /\ Slot(pre, TheActive(pre), i)[1] = Slot(pre, TheActive(pre), j)[1]
               /\ Slot(pre, TheActive(pre), i)[1] # HALF_ERASED
               /\ Slot(pre, TheActive(pre), i)[2] # Slot(pre, TheActive(pre), j)[2]

\* The distinct tags of the writes called so far.
Used ==
    {t \in CapTags : last[t] # None} \cup (IF op.name = "write" THEN {op.tag} ELSE {})

TooMany == outcome = "panic_too_many"

\* C9: from the canonical empty state no write of a sequence of K writes,
\* K <= (I-1)*(N-1), over at most I-1 distinct tags aborts with 'too many
\* variables'.
C9_Capacity ==
    (nwrites <= (PageItems - 1) * (page_count - 1) /\ Cardinality(Used) <= PageItems - 1)
        => ~TooMany

\* C9 as amended: the same with at most I-2 distinct tags; with I-1 distinct
\* tags, for the first I-1 writes.
C9_CapacityAmended ==
    (/\ nwrites <= (PageItems - 1) * (page_count - 1)
     /\ Cardinality(Used) <= PageItems - 2 \/ nwrites <= PageItems - 1)
        => ~TooMany

C9_Witness ==
    /\ op.name = "write" /\ outcome = "ok"
    /\ page_count > 2
    /\ nwrites = (PageItems - 1) * (page_count - 1)
    /\ Cardinality(Used) = PageItems - 2
    /\ TheActive(flash) # TheActive(pre)

\* An init that was not the recovery of a stopped operation has returned Ok:
\* pre is the image it was called on.
InitOk == op.name = "init" /\ outcome = "ok" /\ rec # "recovered"

\* C11: when exactly one page is ACTIVE and every other page is erased, init
\* leaves the whole image as it is, also when the active page is full or holds
\* several entries for one tag: init does not compact.
C11_InitFrame == (InitOk /\ WellFormed(pre)) => (flash = pre /\ todo = <<>>)

C11_Witness ==
    /\ InitOk /\ WellFormed(pre)
    /\ Slot(pre, TheActive(pre), PageItems - 1) # ERASED_ITEM
    /\ \E i \in DataItems, j \in DataItems :
          /\ i < j
          /\ Slot(pre, TheActive(pre), i)[1] = Slot(pre, TheActive(pre), j)[1]
          /\ Slot(pre, TheActive(pre), i)[1] # HALF_ERASED

C12_NotPresent ==
    phase = "ready" =>
        \A t \in Tags : read(flash, t) = None <=> t \notin TagsOf(flash, TheActive(flash))

\* The image the primitives of tr leave when issued in order from mem.
RECURSIVE ApplyAll(_, _)
ApplyAll(mem, tr) == IF tr = <<>> THEN mem ELSE ApplyAll(Apply(mem, Head(tr)), Tail(tr))

\* The operation returned the Err of the primitive it was answered with, that
\* primitive being the last one it issued.
Propagated ==
    /\ outcome = "err"
    /\ Len(fault.issued) = fault.at
    /\ flash = ApplyAll(pre, SubSeq(fault.issued, 1, fault.at - 1))

\* C13: when a half-word write or a page_erase returns an error during init,
\* erase or write, compaction included, the operation returns that error to
\* its caller, does not abort the program and issues no further primitive.
C13_ErrorsPropagate == fault.at > 0 => Propagated

\* C13 without the erase_page of a build with debug_assert!: the error of
\* every other primitive, and of every primitive of a release build, is
\* returned.
C13_ExceptAssert == (fault.at > 0 /\ outcome # "panic_assert") => Propagated

\* C14: read(tag) and write(tag, v) with bit 15 of tag set abort the program
\* before any Flash primitive is issued, so the image is as it was.
C14_ReservedTags ==
    /\ (op.name = "write" /\ op.tag >= TAG_MSB) =>
            /\ outcome = "panic_reserved"
            /\ phase = "needinit"
            /\ todo = <<>>
            /\ flash = pre
    /\ (op.name = "read" /\ op.tag >= TAG_MSB) =>
            /\ op.data = PanicReserved
            /\ outcome = "panic"
            /\ flash = pre

\* A write with a reserved tag, called on a full active page, has aborted.
C14_Witness ==
    /\ op.name = "write" /\ op.tag >= TAG_MSB
    /\ outcome = "panic_reserved"
    /\ WellFormed(pre)
    /\ Slot(pre, TheActive(pre), PageItems - 1) # ERASED_ITEM

\* C15: read and write with a legal tag, called when no page is marked
\* ACTIVE, abort the program instead of returning a value or an error, and
\* write programs nothing before it aborts.
C15_NoActivePage ==
    /\ (op.name = "write" /\ op.tag < TAG_MSB /\ ActivePages(pre) = {}) =>
            /\ outcome = "panic_no_active"
            /\ phase = "needinit"
            /\ todo = <<>>
            /\ flash = pre
    /\ (op.name = "read" /\ op.tag < TAG_MSB /\ ActivePages(pre) = {}) =>
            /\ op.data = PanicNoActive
            /\ outcome = "panic"
            /\ phase = "needinit"

\* A write has aborted on an image that holds data but no ACTIVE marker.
C15_Witness ==
    /\ op.name = "write" /\ op.tag < TAG_MSB
    /\ ActivePages(pre) = {}
    /\ outcome = "panic_no_active"
    /\ \E p \in Pages : ~PageErased(pre, p)

\* The image the compaction step of a write called on mem leaves, and the
\* page the write then programs.
AfterRescue(mem) == rescue_if_full(Run(mem), TheActive(mem))

\* C16: when, after the compaction step of a write, no data slot of the (new)
\* active page is 0xFFFF_FFFF, the write aborts the program with 'too many
\* variables' instead of returning success or a Flash error, the image being
\* the one the compaction left.
C16_TooManyVariables ==
    (op.name = "write" /\ op.tag < TAG_MSB /\ ActivePages(pre) # {}) =>
        LET mid == AfterRescue(pre)
        IN  (\A item \in DataItems : Slot(mid.run.mem, mid.page, item) # ERASED_ITEM) =>
                /\ outcome = "panic_too_many"
                /\ phase = "needinit"
                /\ flash = mid.run.mem

\* A write has aborted after compacting a page of I-1 distinct tags.
C16_Witness ==
    /\ op.name = "write"
    /\ outcome = "panic_too_many"
    /\ TheActive(flash) # TheActive(pre)
    /\ Cardinality(TagsOf(flash, TheActive(flash))) = PageItems - 1

\* C17: a controller with page_count < 2 is rejected by an assertion when it
\* is constructed, so that no such controller runs init, erase, read or write.
C17_ConfigValidated == page_count < MinPageCount => op.name = "none"

\* A write that compacts has been stopped; pre is the image it was called on.
TornCompaction ==
    /\ op.name = "write" /\ outcome = "stopped"
    /\ WellFormed(pre)
    /\ Slot(pre, TheActive(pre), PageItems - 1) # ERASED_ITEM

\* It was stopped after the marker of the target was programmed and before the
\* source was erased: source and target are both marked ACTIVE.
TornAfterMark ==
    /\ TornCompaction
    /\ ActivePages(flash) = {TheActive(pre), (TheActive(pre) + 1) % page_count}

\* C18: for every source page src, an init that follows a compaction stopped
\* between the marking of the target (src + 1) mod N and the erase of the
\* source leaves the target as the single ACTIVE page, holding all live data,
\* and the source erased.
C18_StopAfterMark ==
    TornAfterMark =>
        LET src == TheActive(pre)
            tgt == (src + 1) % page_count
            r == init(flash)
        IN  /\ r.res = "ok"
            /\ ActivePages(r.mem) = {tgt}
            /\ PageErased(r.mem, src)
            /\ \A t \in Tags : read(r.mem, t) = read(pre, t)

\* C18 as amended: that init keeps the lower of the two marked pages, which is
\* the target when src = N-1 and the source otherwise, and erases the other;
\* when it keeps the source the image is the one before the write.  Either
\* way one page is ACTIVE and every tag reads what it read before the write.
C18_StopAfterMarkAmended ==
    TornAfterMark =>
        LET src == TheActive(pre)
            tgt == (src + 1) % page_count
            keep == IF src = page_count - 1 THEN tgt ELSE src
            r == init(flash)
        IN  /\ r.res = "ok"
            /\ ActivePages(r.mem) = {keep}
            /\ \A p \in Pages \ {keep} : PageErased(r.mem, p)
            /\ keep = src => r.mem = pre
            /\ \A t \in Tags : read(r.mem, t) = read(pre, t)

\* Stopped after the mark with the last page as source, the source holding
\* values.
C18_Witness ==
    /\ TornAfterMark
    /\ TheActive(pre) = page_count - 1
    /\ \A t \in Tags : read(pre, t) \in Values

\* The compaction was stopped before the marker of the target was programmed.
TornInCopy == TornCompaction /\ ActivePages(flash) = {TheActive(pre)}

\* C19: a compaction stopped after any number of half-word programs of target
\* slots and before the marker of the target is programmed leaves the source
\* the only ACTIVE page and as it was, and the next init erases the target, so
\* that the image after init is the image before the stopped write.
C19_StopInCopy ==
    TornInCopy =>
        LET src == TheActive(pre)
            tgt == (src + 1) % page_count
            r == init(flash)
        IN  /\ SamePage(flash, pre, src)
            /\ \A p \in Pages \ {src, tgt} : SamePage(flash, pre, p)
            /\ r.res = "ok"
            /\ PageErased(r.mem, tgt)
            /\ r.mem = pre

\* Stopped with a whole slot and the data half-word of the next one programmed
\* in the target.
C19_Witness ==
    /\ TornInCopy
    /\ LET tgt == (TheActive(pre) + 1) % page_count
       IN  /\ Slot(flash, tgt, 1)[1] # HALF_ERASED
           /\ Slot(flash, tgt, 2)[1] = HALF_ERASED
           /\ Slot(flash, tgt, 2)[2] # HALF_ERASED

\* A write is between two of its primitives, or was stopped there.
WriteInFlight == op.name = "write" /\ (phase = "running" \/ outcome = "stopped")

\* Primitive p programs the tag half-word of a data slot.
IsTagWrite(p) ==
    /\ p.k = "write"
    /\ p.off % ITEM_SIZE = 0
    /\ (p.off \div ITEM_SIZE) % PageItems # 0

\* C20: write and compaction program the data half-word (offset + 2) of a
\* slot before its tag half-word (offset), so that in every intermediate image
\* a data slot whose tag is not 0xFFFF holds the data meant for it: the slot
\* is as it was before the write or as the write leaves it.
C20_SlotWriteOrder ==
    WriteInFlight =>
        /\ \A k \in 1 .. Len(todo) :
                IsTagWrite(todo[k]) =>
                    IF k > 1
                    THEN todo[k - 1].k = "write" /\ todo[k - 1].off = todo[k].off + 2
                    ELSE MockFlash_read(flash, todo[k].off + 2)
                             = MockFlash_read(post, todo[k].off + 2)
        /\ \A p \in Pages, i \in DataItems :
                Slot(flash, p, i)[1] # HALF_ERASED =>
                    Slot(flash, p, i) \in {Slot(pre, p, i), Slot(post, p, i)}

\* A compacting write has programmed the data half-word of a target slot and
\* has its tag half-word still to program.
C20_Witness ==
    /\ WriteInFlight /\ phase = "running"
    /\ Slot(pre, TheActive(pre), PageItems - 1) # ERASED_ITEM
    /\ IsTagWrite(Head(todo))
    /\ MockFlash_read(flash, Head(todo).off + 2) \in Values \ {HALF_ERASED}
    /\ MockFlash_read(flash, Head(todo).off) = HALF_ERASED

\* ------------------------------------------------------- order of primitives
\* The page a primitive works on, and the kinds of primitive told apart by
\* their offset: the marker is the low half-word of slot 0.
PageOf(p) == p.off \div PageBytes

IsMarkerWrite(p) == p.k = "write" /\ p.off % PageBytes = 0

IsSlotWrite(p) == p.k = "write" /\ (p.off % PageBytes) \div ITEM_SIZE # 0

\* A write was called on a well-formed image whose active page is full.
CompactingWrite ==
    /\ op.name = "write" /\ op.tag < TAG_MSB
    /\ WellFormed(pre)
    /\ Slot(pre, TheActive(pre), PageItems - 1) # ERASED_ITEM

\* C21: within one compaction every program of a target data slot is issued
\* before the program of the target marker, the target marker is programmed
\* before the source page is erased, and no primitive touches the source
\* page before the target marker is programmed.
C21_CompactionOrder ==
    CompactingWrite =>
        LET src == TheActive(pre)
            tgt == (src + 1) % page_count
            tr == fault.issued
            marks == {k \in 1 .. Len(tr) :
                         IsMarkerWrite(tr[k]) /\ PageOf(tr[k]) = tgt
                         /\ tr[k].val = ACTIVE_PAGE_MARKER}
            erases == {k \in 1 .. Len(tr) : tr[k].k = "page_erase" /\ PageOf(tr[k]) = src}
        IN  /\ \A k \in 1 .. Len(tr) :
                   /\ PageOf(tr[k]) = src => \E m \in marks : m < k
                   /\ (IsSlotWrite(tr[k]) /\ PageOf(tr[k]) = tgt /\ \A e \in erases : k < e)
                          => \A m \in marks : k < m
            /\ outcome = "ok" => marks # {} /\ erases # {}
            /\ Slot(flash, tgt, 0)[1] # ACTIVE_PAGE_MARKER => SamePage(flash, pre, src)

\* A write has compacted the last page into page 0, copying two tags, and
\* returned Ok.
C21_Witness ==
    /\ CompactingWrite /\ outcome = "ok"
    /\ TheActive(pre) = page_count - 1
    /\ Len(fault.issued) = 8

\* C22: on an image with at least one page marked ACTIVE a successful init
\* leaves the lowest-indexed of them as it was, leaves every other page
\* erased, pages marked ACTIVE included, and programs no marker; on an image
\* with no page marked ACTIVE it leaves all pages erased but for the marker
\* of page 0, the one half-word it programs.
C22_InitSelection ==
    (op.name = "init" /\ outcome = "ok") =>
        LET tr == fault.issued
            programs == {k \in 1 .. Len(tr) : tr[k].k = "write"}
        IN  IF ActivePages(pre) # {}
            THEN /\ SamePage(flash, pre, TheActive(pre))
                 /\ \A p \in Pages \ {TheActive(pre)} : PageErased(flash, p)
                 /\ programs = {}
            ELSE /\ \A p \in Pages \ {0} : PageErased(flash, p)
                 /\ Slot(flash, 0, 0) = <<ACTIVE_PAGE_MARKER, HALF_ERASED>>
                 /\ \A item \in DataItems : Slot(flash, 0, item) = ERASED_ITEM
                 /\ programs = {Len(tr)}
                 /\ tr[Len(tr)] = [k |-> "write", off |-> 0, val |-> ACTIVE_PAGE_MARKER]

\* init has returned Ok on an image with two pages marked ACTIVE above an
\* unmarked page 0.
C22_Witness ==
    /\ op.name = "init" /\ outcome = "ok"
    /\ Cardinality(ActivePages(pre)) >= 2
    /\ TheActive(pre) > 0

\* init has returned Ok on an image of zeroed pages, none marked ACTIVE.
C22_WitnessNoActive ==
    /\ op.name = "init" /\ outcome = "ok"
    /\ ActivePages(pre) = {}
    /\ \A p \in Pages : Slot(pre, p, 1) = <<0, 0>>

\* The highest data slot of page p holding tag t.
LastPos(mem, p, t) ==
    CHOOSE i \in DataItems :
        /\ Slot(mem, p, i)[1] = t
        /\ \A j \in DataItems : Slot(mem, p, j)[1] = t => j <= i

HalfWordsOf(p, item) == {(p * PageItems + item) * 2, (p * PageItems + item) * 2 + 1}

\* C24: when the last slot of the active page is 0xFFFF_FFFF a successful
\* write(T, V) programs the two half-words of the lowest-indexed data slot of
\* the active page that is 0xFFFF_FFFF, to data V and tag T, and leaves every
\* other half-word of the region, markers included, as it was.
C24_AppendFrame ==
    (op.name = "write" /\ outcome = "ok"
        /\ Slot(pre, TheActive(pre), PageItems - 1) = ERASED_ITEM) =>
        LET active == TheActive(pre)
            free == {i \in DataItems : Slot(pre, active, i) = ERASED_ITEM}
            low == CHOOSE i \in free : \A j \in free : i <= j
        IN  /\ Slot(flash, active, low) = <<op.tag, op.data>>
            /\ \A h \in DOMAIN flash : h \notin HalfWordsOf(active, low) => flash[h] = pre[h]
            /\ Len(fault.issued) = 2
            /\ \A k \in 1 .. 2 : fault.issued[k].k = "write"
                                  /\ fault.issued[k].off \div 2 \in HalfWordsOf(active, low)

\* A write has appended above a partially written slot, with an erased slot
\* left above the one it programmed.
C24_Witness ==
    /\ op.name = "write" /\ outcome = "ok"
    /\ Slot(pre, TheActive(pre), PageItems - 1) = ERASED_ITEM
    /\ Slot(flash, TheActive(pre), PageItems - 1) = ERASED_ITEM
    /\ \E i \in DataItems :
           /\ Slot(pre, TheActive(pre), i)[1] = HALF_ERASED
           /\ Slot(pre, TheActive(pre), i)[2] # HALF_ERASED
           /\ Slot(pre, TheActive(pre), i + 1) = ERASED_ITEM
           /\ Slot(flash, TheActive(pre), i + 1) = <<op.tag, op.data>>

\* C25: in every state reached from the canonical empty state by init, erase
\* and write operations that returned Ok, interrupted operations being
\* followed by an init that returned Ok, the data slots of the ACTIVE page
\* that are not 0xFFFF_FFFF are the slots 1..k-1 for some k in 1..I: no slot
\* that is 0xFFFF_FFFF lies below one that is not.
C25_NoGaps ==
    phase = "ready" =>
        /\ Cardinality(ActivePages(flash)) = 1
        /\ \A i, j \in DataItems :
               (i < j /\ Slot(flash, TheActive(flash), i) = ERASED_ITEM)
                   => Slot(flash, TheActive(flash), j) = ERASED_ITEM

\* After a stopped write and its recovery the active page holds a partially
\* written slot between two written ones.
C25_Witness ==
    /\ phase = "ready"
    /\ \E i \in DataItems :
           /\ i > 1 /\ i < PageItems - 1
           /\ Slot(flash, TheActive(flash), i)[1] = HALF_ERASED
           /\ Slot(flash, TheActive(flash), i)[2] # HALF_ERASED
           /\ Slot(flash, TheActive(flash), i - 1)[1] # HALF_ERASED
           /\ Slot(flash, TheActive(flash), i + 1)[1] # HALF_ERASED

\* Data slot item of page p has its data half-word programmed and its tag
\* half-word still 0xFFFF.
Partial(mem, p, item) ==
    Slot(mem, p, item)[1] = HALF_ERASED /\ Slot(mem, p, item)[2] # HALF_ERASED

\* The image with data slot item of page p erased.
Scrubbed(mem, p, item) ==
    [h \in DOMAIN mem |-> IF h \in HalfWordsOf(p, item) THEN HALF_ERASED ELSE mem[h]]

\* The write in flight has programmed the data half-word of the slot it
\* appends and not the tag half-word: the tag half-word is all that the image
\* lacks of the image the write leaves.
TornAppend ==
    /\ WriteInFlight
    /\ \E p \in Pages, item \in DataItems :
           /\ Partial(flash, p, item)
           /\ post = [flash EXCEPT ![(p * PageItems + item) * 2] = op.tag]

\* C26: a data slot whose data half-word is programmed and whose tag
\* half-word is 0xFFFF is not returned by read, every legal tag reading what
\* it reads with the slot erased, and is not copied by compaction; a write
\* stopped between its two half-word programs leaves every legal tag reading
\* what it read before the write.
C26_PartialIgnored ==
    /\ \A p \in ActivePages(flash), item \in DataItems :
           Partial(flash, p, item) =>
               \A t \in Tags : read(flash, t) = read(Scrubbed(flash, p, item), t)
    /\ Compacted => \A item \in DataItems : ~Partial(flash, TheActive(flash), item)
    /\ TornAppend => \A t \in Tags : read(flash, t) = read(pre, t)

\* A write has compacted a page that held a partially written slot and a
\* value for each tag.
C26_Witness ==
    /\ Compacted
    /\ \E item \in DataItems : Partial(pre, TheActive(pre), item)
    /\ \A t \in Tags : read(pre, t) \in Values

\* A write of a value to a tag that held another value was stopped between
\* its two half-word programs.
C26_WitnessTorn ==
    /\ TornAppend /\ outcome = "stopped"
    /\ read(pre, op.tag) \in Values \ {op.data}

\* C27: a read(T2) run between two consecutive Flash primitives of a write
\* (T1, v) in progress, during the compaction and between the marking of the
\* target and the erase of the source included, returns for T2 # T1 what T2
\* read before the write and for T2 = T1 that or v.
C27_ReadDuringWrite ==
    (op.name = "write" /\ phase = "running") =>
        \A t \in Tags :
            \/ read(flash, t) = read(pre, t)
            \/ t = op.tag /\ read(flash, t) = op.data

\* A write that compacts the last page into page 0 is between the marking of
\* the target and the erase of the source, the other tag holding a value.
C27_Witness ==
    /\ op.name = "write" /\ phase = "running"
    /\ ActivePages(flash) = {0, page_count - 1}
    /\ TheActive(pre) = page_count - 1
    /\ \E t \in Tags \ {op.tag} : read(pre, t) \in Values

\* C28: erase calls the page-erase primitive of the Flash only for pages that
\* hold a slot other than 0xFFFF_FFFF; a page that is entirely 0xFFFF is not
\* erased again.
C28_EraseOnlyDirty ==
    op.name = "erase" =>
        \A k \in 1 .. Len(fault.issued) :
            fault.issued[k].k = "page_erase" => ~PageErased(pre, PageOf(fault.issued[k]))

\* What erase does: when it returns Ok it has issued a page_erase for every
\* page in index order, erased pages included.
C28_EraseEveryPage ==
    (op.name = "erase" /\ outcome = "ok") =>
        \A p \in Pages : fault.issued[p + 1] = [k |-> "page_erase", off |-> p * PageBytes,
                                                val |-> HALF_ERASED]

\* C29: when the Flash answers a half-word read with Err during init, erase,
\* read or write, the operation returns a Flash error to its caller and does
\* not abort the program.
C29_ReadErrorsReturned == fault.at = ReadErr => outcome = "err"

\* C30: every half-word program the controller issues, of slot data, slot
\* tag or page marker, targets a half-word that is 0xFFFF when the program is
\* issued, in runs that start with init and call init after every operation
\* that did not return Ok.
C30_ProgramErased ==
    \A k \in 1 .. Len(fault.issued) :
        fault.issued[k].k = "write" =>
            MockFlash_read(ApplyAll(pre, SubSeq(fault.issued, 1, k - 1)), fault.issued[k].off)
                = HALF_ERASED

\* A write has returned Ok after compacting a page that held a partially
\* written slot.
C30_Witness ==
    /\ CompactingWrite /\ outcome = "ok"
    /\ \E item \in DataItems : Partial(pre, TheActive(pre), item)
    /\ \E k \in 1 .. Len(fault.issued) : IsMarkerWrite(fault.issued[k])

\* ------------------------------------------------------------- index bounds
\* The byte offset of the tag half-word of slot item of page p, computed
\* from the layout of the region (first page 0).
OffsetOf(p, item) == (p * PageItems + item) * ITEM_SIZE

C31_InRegion ==
    \A k \in 1 .. Len(fault.issued) :
        /\ fault.issued[k].off \in 0 .. page_count * PageBytes - 2
        /\ fault.issued[k].k = "page_erase" =>
               \E p \in Pages : item_offset_asserts(p, 0) /\ fault.issued[k].off = OffsetOf(p, 0)

\* C32: when a write aborts with 'too many variables' the compaction is
\* committed: the target (src + 1) mod N is the one page marked ACTIVE, every
\* other page is erased, the source included, and every tag that read a
\* value before the call reads the same value.
C32_AfterTooMany ==
    TooMany =>
        LET src == TheActive(pre)
            tgt == (src + 1) % page_count
        IN  /\ ActivePages(flash) = {tgt}
            /\ \A p \in Pages \ {tgt} : PageErased(flash, p)
            /\ \A t \in CapTags : read(pre, t) # None => read(flash, t) = read(pre, t)

\* A write has aborted after compacting the last page, which held one value
\* for one tag and the other value for another tag.
C32_Witness ==
    /\ TooMany
    /\ TheActive(pre) = page_count - 1
    /\ \E t, u \in CapTags : read(pre, t) = 57005 /\ read(pre, u) = HALF_ERASED
    /\ \A t \in CapTags : read(flash, t) \in Values

\* C33: from the canonical empty state, with primitives that succeed, no
\* write of a sequence of any length aborts with 'too many variables' while
\* at most I-2 distinct tags have been written, for every N >= 2: every
\* compaction leaves a data slot of the new active page free for the write.
C33_SufficientRoom ==
    Cardinality(Used) <= PageItems - 2 =>
        /\ ~TooMany
        /\ (op.name = "write" /\ Slot(pre, TheActive(pre), PageItems - 1) # ERASED_ITEM) =>
               LET mid == AfterRescue(pre)
               IN  \E item \in DataItems : Slot(mid.run.mem, mid.page, item) = ERASED_ITEM

\* The write after more than (I-1)*(N-1) writes over I-2 distinct tags has
\* compacted the last page into page 0 and returned Ok.
C33_Witness ==
    /\ op.name = "write" /\ outcome = "ok"
    /\ nwrites = RoomLen
    /\ Cardinality(Used) = PageItems - 2
    /\ TheActive(pre) = page_count - 1
    /\ TheActive(flash) = 0

====
